---------------------------- MODULE Spec2Model ----------------------------
(***************************************************************************)
(* Extruder stepper position with smoothed pressure advance                *)
(* (klippy/chelper/kin_extruder.c).                                        *)
(*                                                                         *)
(* Numbers.  The C code works on doubles; the model works in exact         *)
(* arithmetic on a grid: times, velocities, accelerations and              *)
(* pressure_advance are integers, smooth_time is an even integer (so that  *)
(* smooth_time * .5 is an integer).  The two constants .5 and 1/3 of the   *)
(* integrals are kept exact by carrying every integral in sixths: an       *)
(* operator whose name ends in 6 returns six times the C value.            *)
(* inv_half_smooth_time2 and the returned position are fractions           *)
(* [num, den], compared by cross multiplication.                           *)
(***************************************************************************)
EXTENDS Integers, Sequences, TLC

\* ------------------------------------------------------------------ bounds
MaxMoves == 3      \* longest chain of queued moves
MaxMoveT == 2      \* longest move_t of a move in a chain of several moves
MaxLongMoveT == 5  \* longest move_t of a move queued alone
MaxHst == 2        \* largest half smooth time
MaxPA == 1         \* largest pressure_advance argument

StartVs == {1, 3}      \* start_v values: 2 * half_accel * 1 apart
HalfAccels == {0, 1}   \* half_accel values
AxesRY == {0, 1}       \* axes_r.y values (0: pressure advance does not apply)
PAs == 0 .. MaxPA
SmoothTimes == {2 * h : h \in 0 .. MaxHst}

\* ------------------------------------------------------------------ fractions
Frac(n, d) == [num |-> n, den |-> d]
FracEq(a, b) == a.num * b.den = b.num * a.den

\* ------------------------------------------------------------------ moves
\* trapq.c move_get_distance: distance travelled in a move after move_time
move_get_distance(m, move_time) ==
    (m.start_v + m.half_accel * move_time) * move_time

Shapes(maxT) ==
    [move_t : 0 .. maxT, start_v : StartVs, half_accel : HalfAccels,
     axes_r_y : AxesRY]

RECURSIVE Place(_, _)
\* the moves of shs queued one after the other from position pos:
\* each move starts where the one before it ends
Place(shs, pos) ==
    IF shs = << >> THEN << >>
    ELSE LET s == Head(shs)
             m == [move_t |-> s.move_t, start_v |-> s.start_v,
                   half_accel |-> s.half_accel, axes_r_y |-> s.axes_r_y,
                   start_pos_x |-> pos]
         IN  <<m>> \o Place(Tail(shs), pos + move_get_distance(m, m.move_t))

ShapeSeqs(n, maxT) == [1 .. n -> Shapes(maxT)]

\* chains of up to MaxMoves short moves
Chains ==
    {Place(s, 0) : s \in UNION {ShapeSeqs(n, MaxMoveT) : n \in 1 .. MaxMoves}}

\* one long move queued alone
LongChains == {Place(s, 0) : s \in ShapeSeqs(1, MaxLongMoveT)}

\* ------------------------------------------------------------------ integrals
\* six times pa_integrate: the integral of delta_base + t * start_dv
pa_integrate6(delta_base, start_dv, start, end) ==
    LET si == start * (2 * delta_base + start * start_dv)
        ei == end * (2 * delta_base + end * start_dv)
    IN  3 * (ei - si)

\* pa_integrate_time6 with half_db = delta_base (the .5 forgotten)
pa_integrate_time6_no_half(delta_base, start_dv, start, end) ==
    LET si == start * start * (6 * delta_base + start * 2 * start_dv)
        ei == end * end * (6 * delta_base + end * 2 * start_dv)
    IN  ei - si

\* six times pa_integrate_time: the integral of t * (delta_base + t * start_dv)
pa_integrate_time6(delta_base, start_dv, start, end) ==
    LET si == start * start * (3 * delta_base + start * 2 * start_dv)
        ei == end * end * (3 * delta_base + end * 2 * start_dv)
    IN  ei - si

\* pa_move_integrate6 without the test of can_pressure_advance
pa_move_integrate6_no_flag(m, pressure_advance_arg, start_arg, end_arg, time_offset) ==
    LET start == IF start_arg < 0 THEN 0 ELSE start_arg
        end == IF end_arg > m.move_t THEN m.move_t ELSE end_arg
        delta_base == pressure_advance_arg * m.start_v
        start_dv == pressure_advance_arg * 2 * m.half_accel
        iext == pa_integrate6(delta_base, start_dv, start, end)
        wgt_ext == pa_integrate_time6(delta_base, start_dv, start, end)
    IN  wgt_ext - time_offset * iext

\* pa_move_integrate6 without the clipping of end to move_t
pa_move_integrate6_no_clip(m, pressure_advance_arg, start_arg, end_arg, time_offset) ==
    LET start == IF start_arg < 0 THEN 0 ELSE start_arg
        end == end_arg
        can_pressure_advance == m.axes_r_y # 0
        pa == IF ~can_pressure_advance THEN 0 ELSE pressure_advance_arg
        delta_base == pa * m.start_v
        start_dv == pa * 2 * m.half_accel
        iext == pa_integrate6(delta_base, start_dv, start, end)
        wgt_ext == pa_integrate_time6(delta_base, start_dv, start, end)
    IN  wgt_ext - time_offset * iext

\* six times pa_move_integrate
pa_move_integrate6(m, pressure_advance_arg, start_arg, end_arg, time_offset) ==
    LET start == IF start_arg < 0 THEN 0 ELSE start_arg
        end == IF end_arg > m.move_t THEN m.move_t ELSE end_arg
        can_pressure_advance == m.axes_r_y # 0
        pa == IF ~can_pressure_advance THEN 0 ELSE pressure_advance_arg
        delta_base == pa * m.start_v
        start_dv == pa * 2 * m.half_accel
        iext == pa_integrate6(delta_base, start_dv, start, end)
        wgt_ext == pa_integrate_time6(delta_base, start_dv, start, end)
    IN  wgt_ext - time_offset * iext

\* ------------------------------------------------------------------ window
\* One visited move of a traversal: its index in the chain, the
\* contribution added to (or subtracted from) res, and the window bound
\* after the shift by a move_t.
Visit(idx, contrib, bound) == [idx |-> idx, contrib |-> contrib, bound |-> bound]

RECURSIVE prev_loop_le(_, _, _, _, _, _)
\* prev_loop with the test start <= 0.
prev_loop_le(ms, prev, start, res, pa, visits) ==
    IF ~(start <= 0)
    THEN [res |-> res, start |-> start, visits |-> visits, oob |-> FALSE]
    ELSE IF prev = 1
    THEN [res |-> res, start |-> start, visits |-> visits, oob |-> TRUE]
    ELSE LET p == prev - 1
             s == start + ms[p].move_t
             c == pa_move_integrate6(ms[p], pa, s, ms[p].move_t, s)
         IN  prev_loop_le(ms, p, s, res + c, pa, Append(visits, Visit(p, c, s)))

RECURSIVE prev_loop(_, _, _, _, _, _)
\* while (start < 0.) of pa_range_integrate.  list_prev_entry of the first
\* queued move is not a move: oob marks the read outside the chain.
prev_loop(ms, prev, start, res, pa, visits) ==
    IF ~(start < 0)
    THEN [res |-> res, start |-> start, visits |-> visits, oob |-> FALSE]
    ELSE IF prev = 1
    THEN [res |-> res, start |-> start, visits |-> visits, oob |-> TRUE]
    ELSE LET p == prev - 1
             s == start + ms[p].move_t
             c == pa_move_integrate6(ms[p], pa, s, ms[p].move_t, s)
         IN  prev_loop(ms, p, s, res + c, pa, Append(visits, Visit(p, c, s)))

RECURSIVE next_loop_pivot(_, _, _, _, _, _)
\* next_loop with the time offset of the window end before the shift
next_loop_pivot(ms, m, end, res, pa, visits) ==
    IF ~(end > ms[m].move_t)
    THEN [res |-> res, end |-> end, visits |-> visits, oob |-> FALSE]
    ELSE IF m = Len(ms)
    THEN [res |-> res, end |-> end, visits |-> visits, oob |-> TRUE]
    ELSE LET e == end - ms[m].move_t
             n == m + 1
             c == pa_move_integrate6(ms[n], pa, 0, e, end)
         IN  next_loop_pivot(ms, n, e, res - c, pa, Append(visits, Visit(n, c, e)))

RECURSIVE next_loop(_, _, _, _, _, _)
\* while (end > m->move_t) of pa_range_integrate.  list_next_entry of the
\* last queued move is not a move.
next_loop(ms, m, end, res, pa, visits) ==
    IF ~(end > ms[m].move_t)
    THEN [res |-> res, end |-> end, visits |-> visits, oob |-> FALSE]
    ELSE IF m = Len(ms)
    THEN [res |-> res, end |-> end, visits |-> visits, oob |-> TRUE]
    ELSE LET e == end - ms[m].move_t
             n == m + 1
             c == pa_move_integrate6(ms[n], pa, 0, e, e)
         IN  next_loop(ms, n, e, res - c, pa, Append(visits, Visit(n, c, e)))

\* six times pa_range_integrate of move number m of the chain ms, with the
\* moves visited before and after it
pa_range_integrate6(ms, m, move_time, pa, hst) ==
    LET start == move_time - hst
        end == move_time + hst
        c1 == pa_move_integrate6(ms[m], pa, start, move_time, start)
        c2 == pa_move_integrate6(ms[m], pa, move_time, end, end)
        back == prev_loop(ms, m, start, c1 - c2, pa, << >>)
        fwd == IF back.oob
               THEN [res |-> back.res, end |-> end, visits |-> << >>, oob |-> FALSE]
               ELSE next_loop(ms, m, end, back.res, pa, << >>)
    IN  [res |-> fwd.res, oob |-> back.oob \/ fwd.oob,
         own |-> c1 - c2, prevs |-> back.visits, nexts |-> fwd.visits]

\* calc_position with the test of pressure_advance in place of the test of hst
calc_position_pa_test(ms, m, move_time, pa, hst, inv2) ==
    LET base == ms[m].start_pos_x + move_get_distance(ms[m], move_time)
    IN  IF pa = 0
        THEN [integrated |-> FALSE, oob |-> FALSE, base |-> base,
              pos |-> Frac(base, 1), area6 |-> 0,
              own |-> 0, prevs |-> << >>, nexts |-> << >>]
        ELSE LET a == pa_range_integrate6(ms, m, move_time, pa, hst)
             IN  [integrated |-> TRUE, oob |-> a.oob, base |-> base,
                  pos |-> Frac(base * 6 * inv2.den + a.res * inv2.num,
                               6 * inv2.den),
                  area6 |-> a.res,
                  own |-> a.own, prevs |-> a.prevs, nexts |-> a.nexts]

\* ------------------------------------------------------------------ evaluator
\* extruder_calc_position as a function of the chain, the queried move and
\* time and the fields of struct extruder_stepper
calc_position(ms, m, move_time, pa, hst, inv2) ==
    LET base == ms[m].start_pos_x + move_get_distance(ms[m], move_time)
    IN  IF hst = 0
        THEN [integrated |-> FALSE, oob |-> FALSE, base |-> base,
              pos |-> Frac(base, 1), area6 |-> 0,
              own |-> 0, prevs |-> << >>, nexts |-> << >>]
        ELSE LET a == pa_range_integrate6(ms, m, move_time, pa, hst)
             IN  [integrated |-> TRUE, oob |-> a.oob, base |-> base,
                  pos |-> Frac(base * 6 * inv2.den + a.res * inv2.num,
                               6 * inv2.den),
                  area6 |-> a.res,
                  own |-> a.own, prevs |-> a.prevs, nexts |-> a.nexts]

VARIABLES
    pressure_advance,        \* es->pressure_advance
    half_smooth_time,        \* es->half_smooth_time
    inv_half_smooth_time2,   \* es->inv_half_smooth_time2, a fraction
    gen_steps_pre_active,    \* es->sk.gen_steps_pre_active
    gen_steps_post_active,   \* es->sk.gen_steps_post_active
    moves,                   \* the queued moves around the move of the call
    last,                    \* the last call and its arguments
    ret                      \* what the extruder_calc_position in progress did

vars == <<pressure_advance, half_smooth_time, inv_half_smooth_time2,
          gen_steps_pre_active, gen_steps_post_active, moves, last, ret>>

es_vars == <<pressure_advance, half_smooth_time, inv_half_smooth_time2,
             gen_steps_pre_active, gen_steps_post_active>>

NoRet == [status |-> "none"]

\* What a read outside the chain can lead to: the call faults, or it goes on
\* with whatever the memory holds and returns some number.
Garbage == {Frac(7, 1)}

\* extruder_stepper_alloc: memset(es, 0, sizeof(*es))
extruder_stepper_alloc ==
    /\ pressure_advance = 0
    /\ half_smooth_time = 0
    /\ inv_half_smooth_time2 = Frac(0, 1)
    /\ gen_steps_pre_active = 0
    /\ gen_steps_post_active = 0
    /\ moves = << >>
    /\ last = [op |-> "extruder_stepper_alloc"]
    /\ ret = NoRet

Init == extruder_stepper_alloc

\* extruder_set_pressure_advance clearing pressure_advance when hst = 0
set_pressure_advance_clearing(pa, smooth_time) ==
    LET hst == smooth_time \div 2
    IN  /\ ret = NoRet
        /\ half_smooth_time' = hst
        /\ gen_steps_pre_active' = hst
        /\ gen_steps_post_active' = hst
        /\ IF hst = 0
           THEN /\ pressure_advance' = 0
                /\ UNCHANGED inv_half_smooth_time2
           ELSE /\ inv_half_smooth_time2' = Frac(1, hst * hst)
                /\ pressure_advance' = pa
        /\ last' = [op |-> "extruder_set_pressure_advance",
                    pressure_advance |-> pa, smooth_time |-> smooth_time]
        /\ UNCHANGED <<moves, ret>>

\* extruder_set_pressure_advance with 1. / hst for 1. / (hst * hst)
set_pressure_advance_inv_hst(pa, smooth_time) ==
    LET hst == smooth_time \div 2
    IN  /\ ret = NoRet
        /\ half_smooth_time' = hst
        /\ gen_steps_pre_active' = hst
        /\ gen_steps_post_active' = hst
        /\ IF hst = 0
           THEN UNCHANGED <<inv_half_smooth_time2, pressure_advance>>
           ELSE /\ inv_half_smooth_time2' = Frac(1, hst)
                /\ pressure_advance' = pa
        /\ last' = [op |-> "extruder_set_pressure_advance",
                    pressure_advance |-> pa, smooth_time |-> smooth_time]
        /\ UNCHANGED <<moves, ret>>

\* extruder_set_pressure_advance setting the margins after the early return
set_pressure_advance_late_margins(pa, smooth_time) ==
    LET hst == smooth_time \div 2
    IN  /\ ret = NoRet
        /\ half_smooth_time' = hst
        /\ IF hst = 0
           THEN UNCHANGED <<inv_half_smooth_time2, pressure_advance,
                            gen_steps_pre_active, gen_steps_post_active>>
           ELSE /\ gen_steps_pre_active' = hst
                /\ gen_steps_post_active' = hst
                /\ inv_half_smooth_time2' = Frac(1, hst * hst)
                /\ pressure_advance' = pa
        /\ last' = [op |-> "extruder_set_pressure_advance",
                    pressure_advance |-> pa, smooth_time |-> smooth_time]
        /\ UNCHANGED <<moves, ret>>

\* The calls are serialized by the caller: none starts while a position
\* query is in progress.
extruder_set_pressure_advance(pa, smooth_time) ==
    LET hst == smooth_time \div 2
    IN  /\ ret = NoRet
        /\ half_smooth_time' = hst
        /\ gen_steps_pre_active' = hst
        /\ gen_steps_post_active' = hst
        /\ IF hst = 0
           THEN UNCHANGED <<inv_half_smooth_time2, pressure_advance>>
           ELSE /\ inv_half_smooth_time2' = Frac(1, hst * hst)
                /\ pressure_advance' = pa
        /\ last' = [op |-> "extruder_set_pressure_advance",
                    pressure_advance |-> pa, smooth_time |-> smooth_time]
        /\ UNCHANGED <<moves, ret>>

\* The callback is handed move number m of the chain ms and a time in it.
extruder_calc_position(ms, m, move_time) ==
    LET r == calc_position(ms, m, move_time, pressure_advance,
                           half_smooth_time, inv_half_smooth_time2)
    IN  /\ moves' = ms
        /\ last' = [op |-> "extruder_calc_position", m |-> m,
                    move_time |-> move_time]
        /\ IF r.oob
           THEN \/ ret' = [r EXCEPT !.pos = Frac(0, 1)] @@ [status |-> "fault"]
                \/ \E g \in Garbage :
                       ret' = [r EXCEPT !.pos = g] @@ [status |-> "returned"]
           ELSE ret' = r @@ [status |-> "returned"]
        /\ UNCHANGED es_vars

\* The call is over: the caller has the position (or the process is gone),
\* and no reference to a move is kept.
extruder_calc_position_return ==
    /\ ret.status \in {"returned", "fault"}
    /\ ret' = NoRet
    /\ moves' = << >>
    /\ last' = [op |-> "return"]
    /\ UNCHANGED es_vars

Next ==
    \/ \E pa \in PAs, smooth_time \in SmoothTimes :
           extruder_set_pressure_advance(pa, smooth_time)
    \/ /\ ret = NoRet
       /\ \E ms \in Chains : \E m \in 1 .. Len(ms) :
              \E move_time \in 0 .. ms[m].move_t :
                  extruder_calc_position(ms, m, move_time)
    \/ extruder_calc_position_return

Spec == Init /\ [][Next]_vars

\* The same evaluator handed one long move at a time.
NextLong ==
    \/ \E pa \in PAs, smooth_time \in SmoothTimes :
           extruder_set_pressure_advance(pa, smooth_time)
    \/ /\ ret = NoRet
       /\ \E ms \in LongChains : \E move_time \in 0 .. ms[1].move_t :
              extruder_calc_position(ms, 1, move_time)
    \/ extruder_calc_position_return

SpecLong == Init /\ [][NextLong]_vars

\* ------------------------------------------------------------------ steps
\* The same callback with the two loops of pa_range_integrate taken one
\* iteration at a time.  While the call runs, ret holds its local
\* variables; when it ends, ret is what extruder_calc_position leaves.

\* chains that differ in the move_t of their moves only
WalkShapes ==
    {sh \in Shapes(MaxMoveT) :
         sh.start_v = 1 /\ sh.half_accel = 1 /\ sh.axes_r_y = 1}

WalkChains ==
    {Place(s, 0) : s \in UNION {[1 .. n -> WalkShapes] : n \in 1 .. MaxMoves}}

\* The call ends after a read outside the chain.
Undefined(r) ==
    LET f == [integrated |-> TRUE, oob |-> TRUE, base |-> r.base,
              pos |-> Frac(0, 1), area6 |-> r.res, own |-> r.own,
              prevs |-> r.prevs, nexts |-> r.nexts, status |-> "fault"]
    IN  \/ ret' = f
        \/ \E g \in Garbage : ret' = [f EXCEPT !.pos = g, !.status = "returned"]

\* extruder_calc_position up to the first loop of pa_range_integrate
calc_position_enter(ms, m, move_time) ==
    LET base == ms[m].start_pos_x + move_get_distance(ms[m], move_time)
        hst == half_smooth_time
        start == move_time - hst
        end == move_time + hst
        c1 == pa_move_integrate6(ms[m], pressure_advance, start, move_time, start)
        c2 == pa_move_integrate6(ms[m], pressure_advance, move_time, end, end)
    IN  /\ moves' = ms
        /\ last' = [op |-> "extruder_calc_position", m |-> m,
                    move_time |-> move_time]
        /\ IF hst = 0
           THEN ret' = [integrated |-> FALSE, oob |-> FALSE, base |-> base,
                        pos |-> Frac(base, 1), area6 |-> 0, own |-> 0,
                        prevs |-> << >>, nexts |-> << >>, status |-> "returned"]
           ELSE ret' = [status |-> "running", pc |-> "prev", base |-> base,
                        start |-> start, end |-> end, res |-> c1 - c2,
                        own |-> c1 - c2, prev |-> m, m |-> m,
                        prevs |-> << >>, nexts |-> << >>]
        /\ UNCHANGED es_vars

\* prev_step with the test start <= 0
prev_step_le ==
    /\ ret.status = "running" /\ ret.pc = "prev"
    /\ IF ~(ret.start <= 0)
       THEN ret' = [ret EXCEPT !.pc = "next"]
       ELSE IF ret.prev = 1
       THEN Undefined(ret)
       ELSE LET p == ret.prev - 1
                s == ret.start + moves[p].move_t
                c == pa_move_integrate6(moves[p], pressure_advance, s,
                                        moves[p].move_t, s)
            IN  ret' = [ret EXCEPT !.prev = p, !.start = s, !.res = @ + c,
                                   !.prevs = Append(@, Visit(p, c, s))]
    /\ UNCHANGED <<es_vars, moves, last>>

\* one test of while (start < 0.) and, if it holds, one iteration
prev_step ==
    /\ ret.status = "running" /\ ret.pc = "prev"
    /\ IF ~(ret.start < 0)
       THEN ret' = [ret EXCEPT !.pc = "next"]
       ELSE IF ret.prev = 1
       THEN Undefined(ret)
       ELSE LET p == ret.prev - 1
                s == ret.start + moves[p].move_t
                c == pa_move_integrate6(moves[p], pressure_advance, s,
                                        moves[p].move_t, s)
            IN  ret' = [ret EXCEPT !.prev = p, !.start = s, !.res = @ + c,
                                   !.prevs = Append(@, Visit(p, c, s))]
    /\ UNCHANGED <<es_vars, moves, last>>

\* one test of while (end > m->move_t) and, if it holds, one iteration;
\* if it fails, the return of pa_range_integrate and of the callback
next_step ==
    /\ ret.status = "running" /\ ret.pc = "next"
    /\ IF ~(ret.end > moves[ret.m].move_t)
       THEN ret' = [integrated |-> TRUE, oob |-> FALSE, base |-> ret.base,
                    pos |-> Frac(ret.base * 6 * inv_half_smooth_time2.den
                                     + ret.res * inv_half_smooth_time2.num,
                                 6 * inv_half_smooth_time2.den),
                    area6 |-> ret.res, own |-> ret.own, prevs |-> ret.prevs,
                    nexts |-> ret.nexts, status |-> "returned"]
       ELSE IF ret.m = Len(moves)
       THEN Undefined(ret)
       ELSE LET e == ret.end - moves[ret.m].move_t
                n == ret.m + 1
                c == pa_move_integrate6(moves[n], pressure_advance, 0, e, e)
            IN  ret' = [ret EXCEPT !.m = n, !.end = e, !.res = @ - c,
                                   !.nexts = Append(@, Visit(n, c, e))]
    /\ UNCHANGED <<es_vars, moves, last>>

NextSteps ==
    \/ \E pa \in PAs, smooth_time \in SmoothTimes :
           extruder_set_pressure_advance(pa, smooth_time)
    \/ /\ ret = NoRet
       /\ \E ms \in WalkChains : \E m \in 1 .. Len(ms) :
              \E move_time \in 0 .. ms[m].move_t :
                  calc_position_enter(ms, m, move_time)
    \/ prev_step
    \/ next_step
    \/ extruder_calc_position_return

\* A call that has started goes on: nothing but the two loops can keep it
\* from returning.
SpecSteps ==
    Init /\ [][NextSteps]_vars /\ WF_vars(prev_step) /\ WF_vars(next_step)

\* ------------------------------------------------------------------ claims
Configured == last.op = "extruder_set_pressure_advance"
Queried == last.op = "extruder_calc_position"

\* the queried move, and the nominal position of the query
QMove == moves[last.m]
Nominal ==
    QMove.start_pos_x
    + (QMove.start_v + QMove.half_accel * last.move_time) * last.move_time

RECURSIVE SumMoveT(_, _, _)
\* the total move_t of the moves lo .. hi of ms
SumMoveT(ms, lo, hi) ==
    IF lo > hi THEN 0 ELSE ms[lo].move_t + SumMoveT(ms, lo + 1, hi)

\* The chain holds the history and the lookahead of the window of the query.
Covered(ms, m, t, hst) ==
    /\ SumMoveT(ms, 1, m - 1) >= hst - t
    /\ SumMoveT(ms, m + 1, Len(ms)) >= t + hst - ms[m].move_t

\* C1 as written: after a call with smooth_time = 0 the stored
\* pressure_advance is 0.
C1_Cleared ==
    (Configured /\ last.smooth_time = 0) => pressure_advance = 0

\* C1 amended: a call with smooth_time = 0 sets half_smooth_time to 0 and
\* leaves the stored pressure_advance as it was before the call, whatever
\* pressure_advance argument it is passed.
C1_Kept ==
    [][(last'.op = "extruder_set_pressure_advance" /\ last'.smooth_time = 0)
         => (half_smooth_time' = 0 /\ pressure_advance' = pressure_advance)]_vars

C1_Witness ==
    /\ Configured /\ last.smooth_time = 0
    /\ pressure_advance # 0
    /\ last.pressure_advance # pressure_advance

\* C2: with half_smooth_time = 0 the callback returns exactly the nominal
\* position, evaluates no integral and visits no other move, whatever
\* pressure_advance and inv_half_smooth_time2 earlier calls left.
C2_Disabled ==
    (Queried /\ half_smooth_time = 0)
        => /\ ret.status = "returned"
           /\ ret.pos = Frac(Nominal, 1)
           /\ ~ret.integrated /\ ~ret.oob
           /\ ret.prevs = << >> /\ ret.nexts = << >>

C2_Witness ==
    /\ Queried /\ half_smooth_time = 0
    /\ pressure_advance # 0 /\ inv_half_smooth_time2.num # 0
    /\ Len(moves) = 3 /\ last.m = 2
    /\ QMove.axes_r_y # 0 /\ last.move_time > 0

Agree ==
    half_smooth_time > 0
        => inv_half_smooth_time2.num * half_smooth_time * half_smooth_time
               = inv_half_smooth_time2.den

\* C3 as written: half_smooth_time and inv_half_smooth_time2 agree, and a
\* call leaves all three fields as its own arguments determine them
\* (pressure_advance cleared when smoothing is disabled).
C3_AllUpdated ==
    /\ Agree
    /\ Configured
         => /\ half_smooth_time * 2 = last.smooth_time
            /\ pressure_advance
                 = IF half_smooth_time = 0 THEN 0 ELSE last.pressure_advance

\* C3 amended: half_smooth_time and inv_half_smooth_time2 agree in every
\* state; a call with smooth_time > 0 updates the three fields together, a
\* call with smooth_time = 0 updates half_smooth_time alone and leaves the
\* other two as they were.
C3_Agree ==
    [][/\ Agree'
       /\ last'.op = "extruder_set_pressure_advance"
            => /\ half_smooth_time' * 2 = last'.smooth_time
               /\ IF half_smooth_time' > 0
                  THEN pressure_advance' = last'.pressure_advance
                  ELSE /\ pressure_advance' = pressure_advance
                       /\ inv_half_smooth_time2' = inv_half_smooth_time2]_vars

C3_Witness ==
    /\ Configured /\ half_smooth_time = MaxHst
    /\ inv_half_smooth_time2 = Frac(1, MaxHst * MaxHst)
    /\ pressure_advance = MaxPA

\* C4: the two margins declared to the dispatcher equal each other and the
\* stored half_smooth_time, after enabling and after disabling smoothing.
C4_Margins ==
    /\ gen_steps_pre_active = half_smooth_time
    /\ gen_steps_post_active = half_smooth_time

C4_Witness ==
    /\ Configured /\ half_smooth_time = 0
    /\ inv_half_smooth_time2.num # 0
    /\ gen_steps_pre_active = 0 /\ gen_steps_post_active = 0

\* C5: for a move with the flag set and half_accel = 0, queried at least
\* half_smooth_time away from both its ends, the correction is exactly
\* pressure_advance * start_v and no other move is visited.
C5_Interior ==
    (/\ Queried /\ half_smooth_time > 0
     /\ QMove.axes_r_y # 0 /\ QMove.half_accel = 0
     /\ half_smooth_time <= last.move_time
     /\ last.move_time <= QMove.move_t - half_smooth_time)
        => /\ ret.status = "returned" /\ ~ret.oob
           /\ ret.prevs = << >> /\ ret.nexts = << >>
           /\ FracEq(ret.pos,
                     Frac(Nominal + pressure_advance * QMove.start_v, 1))

C5_Witness ==
    /\ Queried /\ half_smooth_time = MaxHst /\ pressure_advance = MaxPA
    /\ QMove.axes_r_y # 0 /\ QMove.half_accel = 0 /\ QMove.start_v = 3
    /\ half_smooth_time <= last.move_time
    /\ last.move_time <= QMove.move_t - half_smooth_time
    /\ ret.status = "returned"
\* the moves with the flag unset replaced by moves that stand still and
\* have the flag set
Zeroed(ms) ==
    [i \in DOMAIN ms |->
        IF ms[i].axes_r_y = 0
        THEN [ms[i] EXCEPT !.start_v = 0, !.half_accel = 0, !.axes_r_y = 1]
        ELSE ms[i]]

\* the position the callback returns for six times the area area6
Smoothed(area6) ==
    Frac(Nominal * 6 * half_smooth_time * half_smooth_time + area6,
         6 * half_smooth_time * half_smooth_time)

\* C6: a move with the flag unset contributes zero to the integral, as the
\* queried move and as a move reached backwards or forwards, whatever its
\* start_v and half_accel; its move_t still shifts the window bound, and
\* the nominal distance of the queried move is still in the position.
C6_FlagUnset ==
    (Queried /\ ret.integrated)
        => /\ QMove.axes_r_y = 0 => ret.own = 0
           /\ \A k \in DOMAIN ret.prevs :
                  /\ moves[ret.prevs[k].idx].axes_r_y = 0
                         => ret.prevs[k].contrib = 0
                  /\ ret.prevs[k].bound
                         = (IF k = 1 THEN last.move_time - half_smooth_time
                                     ELSE ret.prevs[k - 1].bound)
                           + moves[ret.prevs[k].idx].move_t
           /\ \A k \in DOMAIN ret.nexts :
                  /\ moves[ret.nexts[k].idx].axes_r_y = 0
                         => ret.nexts[k].contrib = 0
                  /\ ret.nexts[k].bound
                         = (IF k = 1 THEN last.move_time + half_smooth_time
                                     ELSE ret.nexts[k - 1].bound)
                           - moves[ret.nexts[k].idx - 1].move_t
           /\ ret.area6
                  = pa_range_integrate6(Zeroed(moves), last.m, last.move_time,
                                        pressure_advance, half_smooth_time).res
           /\ ~ret.oob => /\ ret.status = "returned"
                          /\ FracEq(ret.pos, Smoothed(ret.area6))

C6_Witness ==
    /\ Queried /\ ret.integrated /\ ~ret.oob /\ ret.status = "returned"
    /\ pressure_advance > 0
    /\ QMove.axes_r_y = 0 /\ last.move_time > 0
    /\ \E k \in DOMAIN ret.prevs :
           /\ moves[ret.prevs[k].idx].axes_r_y = 0
           /\ moves[ret.prevs[k].idx].half_accel > 0
           /\ ret.prevs[k].bound < moves[ret.prevs[k].idx].move_t
    /\ \E k \in DOMAIN ret.nexts :
           /\ moves[ret.nexts[k].idx].axes_r_y # 0
           /\ ret.nexts[k].contrib # 0

\* C7: at the junction of two adjacent moves A and B, with the history and
\* lookahead of the window queued, the position at the end of A equals the
\* position at the start of B.
C7_Junction ==
    (/\ Queried /\ half_smooth_time > 0
     /\ last.m < Len(moves) /\ last.move_time = QMove.move_t
     /\ moves[last.m + 1].start_pos_x = Nominal
     /\ Covered(moves, last.m, last.move_time, half_smooth_time))
        => LET b == calc_position(moves, last.m + 1, 0, pressure_advance,
                                  half_smooth_time, inv_half_smooth_time2)
           IN  /\ ret.status = "returned" /\ ~ret.oob /\ ~b.oob
               /\ ret.area6 = b.area6
               /\ FracEq(ret.pos, b.pos)

C7_Witness ==
    /\ Queried /\ half_smooth_time = MaxHst /\ pressure_advance > 0
    /\ last.m < Len(moves) /\ last.move_time = QMove.move_t
    /\ Covered(moves, last.m, last.move_time, half_smooth_time)
    /\ QMove.axes_r_y # 0 /\ moves[last.m + 1].axes_r_y # 0
    /\ QMove.move_t > 0 /\ QMove.half_accel # moves[last.m + 1].half_accel
    /\ ret.prevs # << >> /\ ret.nexts # << >>
    /\ ret.area6 # 0

\* six times the integral of (a + b * x) * (c + e * x) from lo to hi
Poly6(a, b, c, e, lo, hi) ==
    LET F(x) == 6 * a * c * x + 3 * (a * e + b * c) * x * x
                + 2 * b * e * x * x * x
    IN  F(hi) - F(lo)

\* Six times the integral of pa(x) * (hst - |x - t|) over the part of the
\* window that lies in the move mv, which starts at time off; x, t and off
\* are times on the clock of the queried move.
SegRef6(mv, off, t, hst, pa) ==
    LET lo == IF off > t - hst THEN off ELSE t - hst
        hi == IF off + mv.move_t < t + hst THEN off + mv.move_t ELSE t + hst
        p == IF mv.axes_r_y # 0 THEN pa ELSE 0
        b == p * 2 * mv.half_accel
        a == p * mv.start_v - b * off
        mid == IF t < lo THEN lo ELSE IF t > hi THEN hi ELSE t
    IN  IF lo >= hi THEN 0
        ELSE Poly6(a, b, hst - t, 1, lo, mid) + Poly6(a, b, hst + t, -1, mid, hi)

\* the start of move j on the clock of move m
Offset(ms, m, j) ==
    IF j < m THEN 0 - SumMoveT(ms, j, m - 1) ELSE SumMoveT(ms, m, j - 1)

RECURSIVE WindowRef6(_, _, _, _, _, _)
\* the sum of SegRef6 over the moves j .. Len(ms)
WindowRef6(ms, m, t, hst, pa, j) ==
    IF j > Len(ms) THEN 0
    ELSE SegRef6(ms[j], Offset(ms, m, j), t, hst, pa)
         + WindowRef6(ms, m, t, hst, pa, j + 1)

\* Moves j and j + 1 are two pieces of one profile.
Mergeable(ms, j) ==
    /\ j < Len(ms)
    /\ ms[j + 1].half_accel = ms[j].half_accel
    /\ ms[j + 1].axes_r_y = ms[j].axes_r_y
    /\ ms[j + 1].start_v = ms[j].start_v + 2 * ms[j].half_accel * ms[j].move_t

\* the chain with the moves j and j + 1 joined into one
Merged(ms, j) ==
    [i \in 1 .. Len(ms) - 1 |->
        IF i < j THEN ms[i]
        ELSE IF i = j THEN [ms[j] EXCEPT !.move_t = ms[j].move_t + ms[j + 1].move_t]
        ELSE ms[i + 1]]

\* C8: with the window covered by the chain, the integral is the sum over
\* the moves of the integral of pa(x) * (hst - |x - t|), and it is the same
\* when two adjacent pieces of one profile are queued as one move.
C8_CutInvariant ==
    (/\ Queried /\ half_smooth_time > 0
     /\ Covered(moves, last.m, last.move_time, half_smooth_time))
        => /\ ~ret.oob
           /\ ret.area6 = WindowRef6(moves, last.m, last.move_time,
                                     half_smooth_time, pressure_advance, 1)
           /\ \A j \in 1 .. Len(moves) - 1 :
                  Mergeable(moves, j)
                      => LET m1 == IF last.m <= j THEN last.m ELSE last.m - 1
                             t1 == IF last.m = j + 1
                                   THEN last.move_time + moves[j].move_t
                                   ELSE last.move_time
                             u == pa_range_integrate6(Merged(moves, j), m1, t1,
                                      pressure_advance, half_smooth_time)
                         IN  ~u.oob /\ u.res = ret.area6

C8_Witness ==
    /\ Queried /\ half_smooth_time > 0 /\ pressure_advance > 0
    /\ Covered(moves, last.m, last.move_time, half_smooth_time)
    /\ ret.area6 # 0
    /\ Len(ret.nexts) = 2 /\ moves[ret.nexts[1].idx].move_t = 0
    /\ Mergeable(moves, last.m)
    /\ QMove.half_accel # 0 /\ QMove.axes_r_y # 0 /\ QMove.move_t > 0

\* C9: when the chain lacks the history or the lookahead of the window, the
\* call ends in a detectable error and reads nothing outside the chain.
C9_DetectableError ==
    (/\ Queried /\ half_smooth_time > 0
     /\ ~Covered(moves, last.m, last.move_time, half_smooth_time))
        => ret.status = "error" /\ ~ret.oob

Finished == Queried /\ ret.status \in {"returned", "fault"}

\* Taken step by step, the call leaves what extruder_calc_position leaves.
StepsAgree ==
    (Finished /\ ~ret.oob)
        => ret = calc_position(moves, last.m, last.move_time, pressure_advance,
                               half_smooth_time, inv_half_smooth_time2)
                 @@ [status |-> "returned"]

WindowQueued ==
    /\ Queried /\ half_smooth_time > 0
    /\ Covered(moves, last.m, last.move_time, half_smooth_time)

\* the walks of a finished call are no longer than the window
ShortestWalks ==
    (WindowQueued /\ Finished)
        => LET m == last.m
               start == last.move_time - half_smooth_time
               end == last.move_time + half_smooth_time
               nb == Len(ret.prevs)
               nf == Len(ret.nexts)
           IN  /\ ret.status = "returned" /\ ~ret.oob
               /\ \A k \in 1 .. nb : ret.prevs[k].idx = m - k
               /\ start + SumMoveT(moves, m - nb, m - 1) >= 0
               /\ nb > 0 => start + SumMoveT(moves, m - nb + 1, m - 1) < 0
               /\ \A k \in 1 .. nf : ret.nexts[k].idx = m + k
               /\ end - SumMoveT(moves, m, m + nf - 1) <= moves[m + nf].move_t
               /\ \A k \in 0 .. nf - 1 :
                      end - SumMoveT(moves, m, m + k - 1) > moves[m + k].move_t

\* C10: with the history and lookahead of the window queued, every call
\* returns; the backward walk visits the moves before the queried one in
\* order and stops at the first at which start is >= 0, the forward walk
\* visits the moves after it in order and stops at the first whose move_t
\* is >= the remaining end; moves of move_t 0 are stepped over.
C10_Terminates ==
    /\ []ShortestWalks
    /\ (WindowQueued /\ ret.status = "running")
           ~> (WindowQueued /\ ret.status = "returned")

C10_Witness ==
    /\ WindowQueued /\ ret.status = "returned"
    /\ Len(ret.nexts) = 2 /\ moves[ret.nexts[1].idx].move_t = 0
    /\ Len(moves) = 3

=============================================================================
